---- MODULE Spec2Model ----
(***************************************************************************)
(* Ingestion pipeline of solar_analytics: the two resumable backfill       *)
(* drivers (pull_historic_power.py, pull_historic_energy.py), the          *)
(* single-day sync (pull_daily.py) and the MongoDB collections they write  *)
(* (setup_db.py).                                                          *)
(*                                                                         *)
(* Dates are day numbers; instants are minutes since day 0 at 00:00 UTC;   *)
(* energies are integers in Wh (1 kWh = 1000), powers integers in W.       *)
(***************************************************************************)
EXTENDS Integers, Sequences, FiniteSets, Bags, TLC

\* ------------------------------------------------------------------ bounds

\* dt.date.today(), the same for every process of a behaviour
Today == 20
\* windows the backfill scripts pass on to the store within a behaviour
MaxWindows == 3
\* invocations of the scripts within a behaviour, all scripts together
MaxRuns == 2

\* --------------------------------------------------------------- constants

PLANT_ID == 1
\* WEEK = dt.timedelta(days=7)
WEEK == 7
MinutesPerDay == 1440
\* Asia/Kolkata is UTC+05:30
IstOffsetMin == 330
\* MongoDB's write error codes: duplicate key, document validation failure
DuplicateKey == 11000
DocumentValidationFailure == 121

\* a field a document or a local does not have / Python's None
Absent == "absent"
NoDate == -1
\* energy is None
NoEnergy == -1
\* what pull_energy_data / pull_power_data return: the rows of the payload,
\* or None when the call raised
Rows(rows) == [none |-> FALSE, rows |-> rows]
NoPayload == [none |-> TRUE, rows |-> <<>>]

\* the processes: one invocation stream per script, and for each backfill
\* script a second one, for an operator who starts the script while it runs
PowerProcs == {"p1", "p2"}
EnergyProcs == {"e1", "e2"}
DailyProcs == {"d1"}
Procs == PowerProcs \cup EnergyProcs \cup DailyProcs
\* the streams of single-worker operation
Serial == {"p1", "e1", "d1"}

\* ------------------------------------------------------- upstream payloads

\* a field of an upstream row: k says what the JSON value is, v its number
Tok(k, v) == [k |-> k, v |-> v]
None == Tok("none", 0)
Empty == Tok("empty", 0)
Garbage == Tok("garbage", 0)
Num(n) == Tok("num", n)
Str(n) == Tok("str", n)
\* the string of n written with its decimals ("0.0", "5.0")
Dec(n) == Tok("dec", n)
Iso(d) == Tok("iso", d)
\* the row has no such key
Missing == Tok("missing", 0)

\* dt.date.fromisoformat / dt.datetime.fromisoformat: the parsed value, or the
\* exception raised ("ValueError" for a malformed string, "TypeError" for None)
FromIsoformat(t) ==
    CASE t.k = "iso" -> [ok |-> TRUE, v |-> t.v, exc |-> Absent]
      [] t.k = "none" -> [ok |-> FALSE, v |-> 0, exc |-> "TypeError"]
      [] OTHER -> [ok |-> FALSE, v |-> 0, exc |-> "ValueError"]

\* float(x): the number, or the exception raised
Float(t) ==
    CASE t.k \in {"num", "str", "dec"} -> [ok |-> TRUE, v |-> t.v, exc |-> Absent]
      [] t.k = "none" -> [ok |-> FALSE, v |-> 0, exc |-> "TypeError"]
      [] OTHER -> [ok |-> FALSE, v |-> 0, exc |-> "ValueError"]

\* bool(x) of a row field
Truthy(t) ==
    CASE t.k \in {"none", "empty"} -> FALSE
      [] t.k = "num" -> t.v # 0
      [] OTHER -> TRUE

\* r["energy"] in ("", None, "0", 0, 0.0)
EnergyZeroish(t) ==
    \/ t.k \in {"empty", "none"}
    \/ t.k \in {"num", "str"} /\ t.v = 0

\* r["power"] in (None, 0)
PowerZeroish(t) ==
    \/ t.k = "none"
    \/ t.k = "num" /\ t.v = 0

\* the instant of a 5-minute sample of day d, as a local-naive timestamp
SampleTime(d, slot) == Iso(d * MinutesPerDay + 5 * slot)

\* a row of the energy endpoint, a row of the power endpoint
ERow(d, e) == [date |-> d, energy |-> e]
PRow(t, w) == [time |-> t, power |-> w]

\* what the energy endpoint may answer for the window [s, e]: nothing; only
\* null and zero values; a good day and a day of 0 kWh; a row whose date, and
\* one whose value, does not parse beside a good one; only a corrupt row; a
\* negative value beside a good day; only null values and zeros written "0.0"
EnergyPayloads(s, e) ==
    { <<>>,
      <<ERow(Iso(e), None), ERow(Iso(e - 1), Str(0)),
        ERow(Iso(s + 1), Num(0)), ERow(Iso(s), Empty)>>,
      <<ERow(Iso(e), Num(9000)), ERow(Iso(s), Str(0))>>,
      <<ERow(Garbage, Str(5000)), ERow(Iso(e), Garbage), ERow(Iso(s), Str(7000))>>,
      <<ERow(Garbage, Str(5000))>>,
      <<ERow(Iso(s), Str(7000)), ERow(Iso(e), Num(-3000))>>,
      <<ERow(Iso(e), Dec(0)), ERow(Iso(s), None)>> }

\* what the power endpoint may answer for day d: nothing; only null and zero
\* samples; a good and a null sample; a sample without a time beside a good
\* one; a time that does not parse; only a sample without a time
PowerPayloads(d) ==
    { <<>>,
      <<PRow(SampleTime(d, 0), Num(0)), PRow(SampleTime(d, 1), None)>>,
      <<PRow(SampleTime(d, 0), Num(600)), PRow(SampleTime(d, 1), None)>>,
      <<PRow(Empty, Num(600)), PRow(SampleTime(d, 1), Num(1200))>>,
      <<PRow(SampleTime(d, 0), Num(600)), PRow(Garbage, Num(600))>>,
      <<PRow(None, Num(600))>> }

\* the dates the single-day sync is run for
DailyDates == {Today - 1, Today}

\* what the energy endpoint may answer for the single day d: nothing; the
\* day's total as a string or a number; 0 kWh; another day's total; a negative
\* total; a date or a value that does not parse; a null value; two records;
\* a record without its date
DailyEnergyPayloads(d) ==
    { <<>>,
      <<ERow(Iso(d), Str(5000))>>,
      <<ERow(Iso(d), Num(1050))>>,
      <<ERow(Iso(d), Str(0))>>,
      <<ERow(Iso(d - 1), Str(5000))>>,
      <<ERow(Iso(d), Num(-3000))>>,
      <<ERow(Garbage, Str(5000))>>,
      <<ERow(Iso(d), Garbage)>>,
      <<ERow(Iso(d), None)>>,
      <<ERow(Iso(d), Str(5000)), ERow(Iso(d), Str(5000))>>,
      <<ERow(Missing, Str(5000))>> }

\* what the power endpoint may answer to the single-day sync: as to the
\* backfill, or a sample whose power is not a number beside a good one
DailyPowerPayloads(d) ==
    PowerPayloads(d) \cup
    { <<PRow(SampleTime(d, 0), Num(600)), PRow(SampleTime(d, 1), Garbage)>> }

\* ------------------------------------------------- Python floats (binary64)

\* A natural number of any size is the sequence of its digits in base 2^15,
\* lowest first, without leading zeros; 0 is the empty sequence.
Base == 2^15

\* the digits of a number below 2^30
NatOf(n) ==
    IF n = 0 THEN <<>>
    ELSE IF n < Base THEN <<n>>
    ELSE <<n % Base, n \div Base>>

\* the digits without their leading zeros
RECURSIVE Trim(_)
Trim(a) ==
    IF a = <<>> THEN <<>>
    ELSE IF a[Len(a)] = 0 THEN Trim(SubSeq(a, 1, Len(a) - 1))
    ELSE a

\* a + b + c, c a carry
RECURSIVE AddCarry(_, _, _)
AddCarry(a, b, c) ==
    IF a = <<>> /\ b = <<>> THEN NatOf(c)
    ELSE LET x == IF a = <<>> THEN 0 ELSE Head(a)
             y == IF b = <<>> THEN 0 ELSE Head(b)
             s == x + y + c
         IN  <<s % Base>> \o AddCarry(IF a = <<>> THEN <<>> ELSE Tail(a),
                                      IF b = <<>> THEN <<>> ELSE Tail(b),
                                      s \div Base)

AddNat(a, b) == AddCarry(a, b, 0)

\* a - b - c for a >= b + c, c a borrow
RECURSIVE SubBorrow(_, _, _)
SubBorrow(a, b, c) ==
    IF a = <<>> THEN <<>>
    ELSE LET y == IF b = <<>> THEN 0 ELSE Head(b)
             s == Head(a) - y - c
         IN  <<s % Base>> \o SubBorrow(Tail(a),
                                       IF b = <<>> THEN <<>> ELSE Tail(b),
                                       IF s < 0 THEN 1 ELSE 0)

SubNat(a, b) == Trim(SubBorrow(a, b, 0))

\* a < b
LessNat(a, b) ==
    \/ Len(a) < Len(b)
    \/ /\ Len(a) = Len(b)
       /\ \E i \in 1..Len(a) :
             /\ a[i] < b[i]
             /\ \A j \in (i + 1)..Len(a) : a[j] = b[j]

\* a * n + c for a digit n
RECURSIVE MulCarry(_, _, _)
MulCarry(a, n, c) ==
    IF a = <<>> THEN NatOf(c)
    ELSE LET s == Head(a) * n + c
         IN  <<s % Base>> \o MulCarry(Tail(a), n, s \div Base)

MulSmall(a, n) == Trim(MulCarry(a, n, 0))

\* the quotient and the remainder of a by a digit n, from the highest digit
\* down; r is the remainder carried in
RECURSIVE DivCarry(_, _, _)
DivCarry(a, n, r) ==
    IF a = <<>> THEN [q |-> <<>>, r |-> r]
    ELSE LET s == r * Base + a[Len(a)]
             rest == DivCarry(SubSeq(a, 1, Len(a) - 1), n, s % n)
         IN  [q |-> Append(rest.q, s \div n), r |-> rest.r]

DivSmall(a, n) ==
    LET d == DivCarry(a, n, 0) IN [q |-> Trim(d.q), r |-> d.r]

\* a * b
RECURSIVE MulNat(_, _)
MulNat(a, b) ==
    IF a = <<>> \/ b = <<>> THEN <<>>
    ELSE AddNat(MulSmall(a, Head(b)), <<0>> \o MulNat(a, Tail(b)))

\* a * 2^k
ShiftLeft(a, k) ==
    IF a = <<>> THEN <<>>
    ELSE [i \in 1..(k \div 15) |-> 0] \o MulSmall(a, 2^(k % 15))

\* a \div 2^k, and whether a bit was shifted out
ShiftRight(a, k) ==
    LET n == k \div 15
        low == SubSeq(a, 1, IF n < Len(a) THEN n ELSE Len(a))
        d == DivSmall(SubSeq(a, n + 1, Len(a)), 2^(k % 15))
    IN  [q |-> d.q,
         lost |-> d.r # 0 \/ \E i \in 1..Len(low) : low[i] # 0]

\* the number of bits of a digit, of a number
RECURSIVE DigitBits(_)
DigitBits(n) == IF n = 0 THEN 0 ELSE 1 + DigitBits(n \div 2)

BitLen(a) == IF a = <<>> THEN 0 ELSE 15 * (Len(a) - 1) + DigitBits(a[Len(a)])

\* a float that is not negative: m * 2^e, m of exactly 53 bits, or 0.0
Double(m, e) == [m |-> m, e |-> e]
Zero == Double(<<>>, 0)

\* the float nearest to (m + f) * 2^e, where 0 <= f < 1 and inexact says that
\* f # 0; a tie goes to the even mantissa
Round(m, e, inexact) ==
    LET bits == BitLen(m)
    IN  IF m = <<>> THEN Zero
        ELSE IF bits <= 53 THEN Double(ShiftLeft(m, 53 - bits), e - (53 - bits))
        ELSE LET k == bits - 53
                 top == ShiftRight(m, k - 1)
                 half == top.q[1] % 2 = 1
                 kept == ShiftRight(top.q, 1).q
                 up == half /\ (top.lost \/ inexact \/ kept[1] % 2 = 1)
                 mant == IF up THEN AddNat(kept, <<1>>) ELSE kept
             IN  IF BitLen(mant) > 53
                 THEN Double(ShiftRight(mant, 1).q, e + k + 1)
                 ELSE Double(mant, e + k)

\* float(n) for an integer 0 <= n < 2^30
DoubleOfInt(n) == Round(NatOf(n), 0, FALSE)

\* x * y
DoubleMul(x, y) == Round(Trim(MulNat(x.m, y.m)), x.e + y.e, FALSE)

\* x / n for a float x and a float n that is an integer 0 < n < 2^15
DoubleDivInt(x, n) ==
    LET d == DivSmall(ShiftLeft(x.m, 17), n)
    IN  Round(d.q, x.e - 17, d.r # 0)

\* the mantissas of x and y over their lower exponent
Aligned(x, y) ==
    LET e == IF x.e < y.e THEN x.e ELSE y.e
    IN  [x |-> ShiftLeft(x.m, x.e - e), y |-> ShiftLeft(y.m, y.e - e), e |-> e]

\* x + y
DoubleAdd(x, y) ==
    IF x.m = <<>> THEN y
    ELSE IF y.m = <<>> THEN x
    ELSE LET a == Aligned(x, y) IN Round(AddNat(a.x, a.y), a.e, FALSE)

\* x < y
DoubleLess(x, y) ==
    IF y.m = <<>> THEN FALSE
    ELSE IF x.m = <<>> THEN TRUE
    ELSE LET a == Aligned(x, y) IN LessNat(a.x, a.y)

\* abs(x - y)
DoubleAbsDiff(x, y) ==
    IF x.m = <<>> THEN y
    ELSE IF y.m = <<>> THEN x
    ELSE LET a == Aligned(x, y)
         IN  IF LessNat(a.x, a.y) THEN Round(SubNat(a.y, a.x), a.e, FALSE)
             ELSE Round(SubNat(a.x, a.y), a.e, FALSE)

\* the samples of a day: one every 5 minutes
SamplesPerDay == MinutesPerDay \div 5

\* what the power endpoint may answer for a day d whose arithmetic is
\* followed: every sample of a day at a constant 1000 W; a good and a null
\* sample; a sample without a time beside a good one; a time, and a power,
\* that does not parse beside a good sample
IntegratePayloads(d) ==
    { [i \in 1..SamplesPerDay |-> PRow(SampleTime(d, i - 1), Num(1000))],
      <<PRow(SampleTime(d, 0), Num(600)), PRow(SampleTime(d, 1), None)>>,
      <<PRow(Empty, Num(600)), PRow(SampleTime(d, 1), Num(1200))>>,
      <<PRow(SampleTime(d, 0), Garbage), PRow(Garbage, Num(600)),
        PRow(SampleTime(d, 2), Num(1200))>> }

\* ---------------------------------------------------------------- variables

VARIABLES
    pwr,          \* solar_data.power_readings: a bag of documents
    ener,         \* solar_data.daily_energy: a set of documents
    meta,         \* solar_data.ingest_meta: documents in natural order
    pwr_v2,       \* solar_data_v2.power_readings: a bag of documents
    ener_v2,      \* solar_data_v2.daily_energy: a set of documents
    pc,           \* where each process is
    cursor,       \* cursor (power) / cursor_end (energy) / date (daily)
    docs,         \* the documents a process has prepared
    energy,       \* pull_daily_data's local energy
    energy_payload, \* the last answer of the energy endpoint (energy_payload / rows)
    power_payload,  \* the last answer of the power endpoint (power_payload / records)
    runs,         \* invocations of each script so far
    resumed,      \* history: the run before this one was killed
    start_cursor, \* history: last_date read when the run started, or NoDate
    requests,     \* history: the windows requested in the current run
    last,         \* history: what the last step of each process did
    persisted,    \* history: the windows whose cursor write completed
    anchor0,      \* history: the first anchor of the script's first run
    validated,    \* history: the windows passed on to the store so far
    replay,       \* history: this sync repeats the last one, upstream unchanged
    snapshot,     \* history: solar_data_v2 as it was when the sync started
    tally,        \* validate_and_upsert_power_data's loop: the records handled,
                  \* total_energy_wh, and whether the mismatch was printed
    view          \* app.py: what the dashboard's last rerun selected and queried

stores == <<pwr, ener, meta, pwr_v2, ener_v2>>
daily == <<energy, energy_payload, power_payload, replay, snapshot, tally, view>>
vars == <<pwr, ener, meta, pwr_v2, ener_v2, pc, cursor, docs, runs, resumed,
          energy, energy_payload, power_payload, replay, snapshot, tally, view,
          start_cursor, requests, last, persisted, anchor0, validated>>

\* --------------------------------------------------------------- the store

\* the documents of a sequence, as a bag
SeqToBag(s) ==
    [d \in {s[i] : i \in 1..Len(s)} |-> Cardinality({i \in 1..Len(s) : s[i] = d})]

\* power_readings has the index plant_ts_idx, which is not unique: insert_many
\* stores every document and reports no duplicate key
InsertManyPower(coll, ds) == [coll |-> coll (+) SeqToBag(ds), errs |-> <<>>]

\* mutant of EnergyValidator: a collection without validator
NoValidator(d) == TRUE

\* daily_energy's validator: energy_kwh is a double >= 0
EnergyValidator(d) == d.energy_kwh >= 0

\* daily_energy's unique index plant_date_idx on (plant_id, date)
EnergyKeyTaken(coll, d) ==
    \E x \in coll : x.plant_id = d.plant_id /\ x.date = d.date

\* the write error of one document of an insert into daily_energy, 0 for none
EnergyWriteError(coll, d) ==
    IF ~EnergyValidator(d) THEN DocumentValidationFailure
    ELSE IF EnergyKeyTaken(coll, d) THEN DuplicateKey
    ELSE 0

\* ener.insert_many(docs, ordered=False): every document is tried, the ones
\* that fail leave their error code in writeErrors
RECURSIVE InsertManyEnergy(_, _)
InsertManyEnergy(coll, ds) ==
    IF ds = <<>> THEN [coll |-> coll, errs |-> <<>>]
    ELSE LET code == EnergyWriteError(coll, Head(ds))
             rest == InsertManyEnergy(
                         IF code = 0 THEN coll \cup {Head(ds)} ELSE coll,
                         Tail(ds))
         IN  [coll |-> rest.coll,
              errs |-> IF code = 0 THEN rest.errs ELSE <<code>> \o rest.errs]

\* {"plant_id": int(plant_id)}
PowerCursorFilter == [plant_id |-> PLANT_ID]

\* {"plant_id": int(PLANT_ID), "metric": "energy"}
EnergyCursorFilter == [plant_id |-> PLANT_ID, metric |-> "energy"]

\* a document matches a filter: it has each field of the filter, with its value
Matches(doc, filter) == \A f \in DOMAIN filter : doc[f] = filter[f]

\* meta.find_one(filter): the index of the first match in natural order, 0 if none
FindOne(coll, filter) ==
    IF \E i \in 1..Len(coll) : Matches(coll[i], filter)
    THEN CHOOSE i \in 1..Len(coll) :
             Matches(coll[i], filter) /\ \A j \in 1..(i - 1) : ~Matches(coll[j], filter)
    ELSE 0

\* meta.update_one(filter, {"$set": {"last_date": d}}, upsert=True): the first
\* match gets the field, or a document made of the filter's fields is inserted
UpdateOneUpsert(coll, filter, d) ==
    LET i == FindOne(coll, filter)
    IN  IF i # 0 THEN [coll EXCEPT ![i].last_date = d]
        ELSE Append(coll, [plant_id |-> filter.plant_id,
                           metric |-> IF "metric" \in DOMAIN filter
                                      THEN filter.metric ELSE Absent,
                           last_date |-> d])

\* any pymongo error code other than 11000
OtherWriteError == 91

\* whether a BulkWriteError is re-raised: some write error is not a duplicate key
HasRealFailure(errs) == \E i \in 1..Len(errs) : errs[i] # DuplicateKey

\* ------------------------------------------------------------- process life

Running == {"fetch", "retry", "insert", "cursor", "energy", "sleep", "power", "loop"}
Ended == {"idle", "stopped", "crashed", "killed", "done"}

\* the locals of a process that is not running
Forget(p) ==
    /\ cursor' = [cursor EXCEPT ![p] = NoDate]
    /\ docs' = [docs EXCEPT ![p] = <<>>]

\* the process is terminated from outside (operator, crash of the host)
Kill(p) ==
    /\ pc[p] \in Running
    /\ pc' = [pc EXCEPT ![p] = "killed"]
    /\ last' = [last EXCEPT ![p] = "killed"]
    /\ Forget(p)
    /\ UNCHANGED <<stores, runs, resumed, daily, start_cursor, requests, persisted, anchor0, validated>>

RECURSIVE SumOver(_, _)
SumOver(f, S) ==
    IF S = {} THEN 0
    ELSE LET x == CHOOSE y \in S : TRUE IN f[x] + SumOver(f, S \ {x})

TotalRuns == SumOver(runs, Procs)

\* at most one script runs at a time (single-worker operation)
Alone(p) == \A q \in Procs \ {p} : pc[q] \in Ended

\* a run starts with cursor c, read from last_date r (NoDate when there is none)
Begin(p, c, r) ==
    /\ pc[p] \in Ended
    /\ TotalRuns < MaxRuns
    /\ runs' = [runs EXCEPT ![p] = @ + 1]
    /\ resumed' = [resumed EXCEPT ![p] = pc[p] = "killed"]
    /\ pc' = [pc EXCEPT ![p] = "fetch"]
    /\ cursor' = [cursor EXCEPT ![p] = c]
    /\ docs' = [docs EXCEPT ![p] = <<>>]
    /\ energy_payload' = [energy_payload EXCEPT ![p] = NoPayload]
    /\ power_payload' = [power_payload EXCEPT ![p] = NoPayload]
    /\ start_cursor' = [start_cursor EXCEPT ![p] = r]
    /\ requests' = [requests EXCEPT ![p] = {}]
    /\ anchor0' = [anchor0 EXCEPT ![p] = IF @ = NoDate THEN c ELSE @]
    /\ last' = [last EXCEPT ![p] = "start"]
    /\ UNCHANGED <<stores, energy, replay, snapshot, tally, view, persisted, validated>>

\* the exception of a step reaches the top level: the process dies
Raise(p, exc) ==
    /\ pc' = [pc EXCEPT ![p] = "crashed"]
    /\ last' = [last EXCEPT ![p] = exc]
    /\ Forget(p)

\* mutant of Break: the loop is not left, the cycle goes on to its cursor write
BreakGoesOn(p, why) ==
    /\ pc' = [pc EXCEPT ![p] = "cursor"]
    /\ last' = [last EXCEPT ![p] = why]
    /\ UNCHANGED <<cursor, docs>>

\* the loop is left by break: the script ends
Break(p, why) ==
    /\ pc' = [pc EXCEPT ![p] = "stopped"]
    /\ last' = [last EXCEPT ![p] = why]
    /\ Forget(p)

\* history: the window [s, e] is requested from the upstream API
Request(p, s, e) ==
    requests' = [requests EXCEPT ![p] = @ \cup {[start |-> s, end |-> e]}]

\* history: the cursor write of the window [s, e], prepared as ds, completed
Persisted(p, s, e, ds) ==
    persisted' = [persisted EXCEPT ![p] = @ \cup {[start |-> s, end |-> e, docs |-> ds]}]

\* ------------------------------------------------ pull_historic_energy.py

\* start_date = cursor_end - (WEEK - dt.timedelta(days=1))
StartDate(cursor_end) == cursor_end - (WEEK - 1)

\* if not rows
EnergyNoRows(rows) == rows = <<>>

\* all(r["energy"] in ("", None, "0", 0, 0.0) for r in rows)
EnergyAllZero(rows) == \A i \in 1..Len(rows) : EnergyZeroish(rows[i].energy)

\* the loop's row parsing: corrupt rows are skipped
RECURSIVE EnergyDocs(_)
EnergyDocs(rows) ==
    IF rows = <<>> THEN <<>>
    ELSE LET r == Head(rows)
             day == FromIsoformat(r.date)
             kwh == Float(r.energy)
         IN  IF day.ok /\ kwh.ok
             THEN <<[plant_id |-> PLANT_ID,
                     date |-> day.v * MinutesPerDay,
                     energy_kwh |-> kwh.v]>> \o EnergyDocs(Tail(rows))
             ELSE EnergyDocs(Tail(rows))

\* the script starts: the cursor is read, or yesterday taken
EnergyStart(p) ==
    LET i == FindOne(meta, EnergyCursorFilter)
    IN  IF i # 0 THEN Begin(p, meta[i].last_date, meta[i].last_date)
        ELSE Begin(p, Today - 1, NoDate)

\* the top of the loop: the window [start_date, cursor_end] is asked for
EnergyMayFetch(p) ==
    /\ pc[p] = "fetch"
    /\ p \in EnergyProcs

\* mutant of EnergyFetchFail: the failed window is given up for the one before
EnergyFetchFailSkips(p) ==
    /\ EnergyMayFetch(p)
    /\ Request(p, StartDate(cursor[p]), cursor[p])
    /\ pc' = [pc EXCEPT ![p] = "retry"]
    /\ last' = [last EXCEPT ![p] = "api_error"]
    /\ cursor' = [cursor EXCEPT ![p] = StartDate(cursor[p]) - 1]
    /\ UNCHANGED <<stores, docs, runs, resumed, daily, start_cursor, persisted,
                   anchor0, validated>>

\* api.plant_energy_history raises: pause and retry the same window
EnergyFetchFail(p) ==
    /\ EnergyMayFetch(p)
    /\ Request(p, StartDate(cursor[p]), cursor[p])
    /\ pc' = [pc EXCEPT ![p] = "retry"]
    /\ last' = [last EXCEPT ![p] = "api_error"]
    /\ UNCHANGED <<stores, cursor, docs, runs, resumed, daily, start_cursor, persisted,
                   anchor0, validated>>

\* time.sleep(PAUSE_S * 3); continue
EnergyRetry(p) ==
    /\ pc[p] = "retry"
    /\ p \in EnergyProcs
    /\ pc' = [pc EXCEPT ![p] = "fetch"]
    /\ last' = [last EXCEPT ![p] = "retrying"]
    /\ UNCHANGED <<stores, cursor, docs, runs, resumed, daily, start_cursor, requests,
                   persisted, anchor0, validated>>

\* the API answers with rows
EnergyAnswer(p, rows) ==
    /\ EnergyMayFetch(p)
    /\ rows \in EnergyPayloads(StartDate(cursor[p]), cursor[p])
    /\ Request(p, StartDate(cursor[p]), cursor[p])
    /\ energy_payload' = [energy_payload EXCEPT ![p] = Rows(rows)]
    /\ UNCHANGED <<stores, runs, resumed, energy, power_payload, replay, snapshot,
                   tally, view, start_cursor, persisted, anchor0>>

\* if not rows: break
EnergyStopEmpty(p) ==
    \E rows \in EnergyPayloads(StartDate(cursor[p]), cursor[p]) :
        /\ EnergyAnswer(p, rows)
        /\ EnergyNoRows(rows)
        /\ Break(p, "empty")
        /\ UNCHANGED validated

\* if all(...): break
EnergyStopZero(p) ==
    \E rows \in EnergyPayloads(StartDate(cursor[p]), cursor[p]) :
        /\ EnergyAnswer(p, rows)
        /\ ~EnergyNoRows(rows)
        /\ EnergyAllZero(rows)
        /\ Break(p, "all_zero")
        /\ UNCHANGED validated

\* the window passes both stop conditions: its documents are prepared
EnergyValidated(p) ==
    \E rows \in EnergyPayloads(StartDate(cursor[p]), cursor[p]) :
        /\ EnergyAnswer(p, rows)
        /\ ~EnergyNoRows(rows)
        /\ ~EnergyAllZero(rows)
        /\ validated < MaxWindows
        /\ validated' = validated + 1
        /\ docs' = [docs EXCEPT ![p] = EnergyDocs(rows)]
        /\ pc' = [pc EXCEPT ![p] = "insert"]
        /\ last' = [last EXCEPT ![p] = "validated"]
        /\ UNCHANGED cursor

\* ener.insert_many(docs, ordered=False), duplicate keys tolerated; pymongo
\* raises TypeError for an empty list of documents
EnergyInsert(p) ==
    /\ pc[p] = "insert"
    /\ p \in EnergyProcs
    /\ \E fault \in BOOLEAN :
          LET res == IF fault THEN [coll |-> ener, errs |-> <<OtherWriteError>>]
                     ELSE InsertManyEnergy(ener, docs[p])
          IN  IF docs[p] = <<>>
              THEN /\ ~fault
                   /\ Raise(p, "TypeError")
                   /\ UNCHANGED ener
              ELSE /\ ener' = res.coll
                   /\ IF HasRealFailure(res.errs)
                      THEN Raise(p, "BulkWriteError")
                      ELSE /\ pc' = [pc EXCEPT ![p] = "cursor"]
                           /\ last' = [last EXCEPT ![p] = "inserted"]
                           /\ UNCHANGED <<cursor, docs>>
    /\ UNCHANGED <<pwr, meta, pwr_v2, ener_v2, runs, resumed, daily,
                   start_cursor, requests, persisted, anchor0, validated>>

\* mutant of EnergyWriteCursor: the next window ends at start_date
EnergyWriteCursorNoStep(p) ==
    /\ pc[p] = "cursor"
    /\ p \in EnergyProcs
    /\ meta' = UpdateOneUpsert(meta, EnergyCursorFilter, StartDate(cursor[p]))
    /\ Persisted(p, StartDate(cursor[p]), cursor[p], docs[p])
    /\ cursor' = [cursor EXCEPT ![p] = StartDate(cursor[p])]
    /\ pc' = [pc EXCEPT ![p] = "fetch"]
    /\ last' = [last EXCEPT ![p] = "saved"]
    /\ UNCHANGED <<pwr, ener, pwr_v2, ener_v2, docs, runs, resumed, daily,
                   start_cursor, requests, anchor0, validated>>

\* meta.update_one(... last_date = start_date ...), then
\* cursor_end = start_date - 1 day and the pause
EnergyWriteCursor(p) ==
    /\ pc[p] = "cursor"
    /\ p \in EnergyProcs
    /\ meta' = UpdateOneUpsert(meta, EnergyCursorFilter, StartDate(cursor[p]))
    /\ Persisted(p, StartDate(cursor[p]), cursor[p], docs[p])
    /\ cursor' = [cursor EXCEPT ![p] = StartDate(cursor[p]) - 1]
    /\ pc' = [pc EXCEPT ![p] = "fetch"]
    /\ last' = [last EXCEPT ![p] = "saved"]
    /\ UNCHANGED <<pwr, ener, pwr_v2, ener_v2, docs, runs, resumed, daily,
                   start_cursor, requests, anchor0, validated>>

\* the loop of the script, once started
EnergyLoop(p) ==
    \/ EnergyFetchFail(p)
    \/ EnergyRetry(p)
    \/ EnergyStopEmpty(p)
    \/ EnergyStopZero(p)
    \/ EnergyValidated(p)
    \/ EnergyInsert(p)
    \/ EnergyWriteCursor(p)

EnergyStep(p) == EnergyStart(p) \/ EnergyLoop(p)

\* ------------------------------------------------- pull_historic_power.py

\* if len(records) == 0
PowerNoRecords(records) == Len(records) = 0

\* all(r["power"] in (None, 0) for r in records)
PowerAllZero(records) == \A i \in 1..Len(records) : PowerZeroish(records[i].power)

\* the comprehension that prepares the documents: rows without a time are left
\* out, the others parsed; power_w is r["power"] or 0.0
PowerKept(records) == SelectSeq(records, LAMBDA r : Truthy(r.time))

PowerDoc(r) ==
    [plant_id |-> PLANT_ID,
     timestamp |-> FromIsoformat(r.time).v,
     power_w |-> IF Truthy(r.power) THEN r.power.v ELSE 0]

PowerDocs(records) ==
    LET kept == PowerKept(records)
    IN  [i \in 1..Len(kept) |-> PowerDoc(kept[i])]

\* whether the comprehension raises: a kept row whose time does not parse
PowerDocsRaise(records) ==
    \E i \in 1..Len(records) :
        Truthy(records[i].time) /\ ~FromIsoformat(records[i].time).ok

\* the script starts: the cursor is read, or today taken
PowerStart(p) ==
    LET i == FindOne(meta, PowerCursorFilter)
    IN  IF i # 0 THEN Begin(p, meta[i].last_date, meta[i].last_date)
        ELSE Begin(p, Today, NoDate)

\* the top of the loop: the day cursor is asked for
PowerMayFetch(p) ==
    /\ pc[p] = "fetch"
    /\ p \in PowerProcs

\* api.plant_power_overview raises: pause and retry the same day
PowerFetchFail(p) ==
    /\ PowerMayFetch(p)
    /\ Request(p, cursor[p], cursor[p])
    /\ pc' = [pc EXCEPT ![p] = "retry"]
    /\ last' = [last EXCEPT ![p] = "api_error"]
    /\ UNCHANGED <<stores, cursor, docs, runs, resumed, daily, start_cursor, persisted,
                   anchor0, validated>>

\* time.sleep(5); continue
PowerRetry(p) ==
    /\ pc[p] = "retry"
    /\ p \in PowerProcs
    /\ pc' = [pc EXCEPT ![p] = "fetch"]
    /\ last' = [last EXCEPT ![p] = "retrying"]
    /\ UNCHANGED <<stores, cursor, docs, runs, resumed, daily, start_cursor, requests,
                   persisted, anchor0, validated>>

\* the API answers with records
PowerAnswer(p, records) ==
    /\ PowerMayFetch(p)
    /\ records \in PowerPayloads(cursor[p])
    /\ Request(p, cursor[p], cursor[p])
    /\ power_payload' = [power_payload EXCEPT ![p] = Rows(records)]
    /\ UNCHANGED <<stores, runs, resumed, energy, energy_payload, replay, snapshot,
                   tally, view, start_cursor, persisted, anchor0>>

\* if len(records) == 0: break
PowerStopEmpty(p) ==
    \E records \in PowerPayloads(cursor[p]) :
        /\ PowerAnswer(p, records)
        /\ PowerNoRecords(records)
        /\ Break(p, "empty")
        /\ UNCHANGED validated

\* if all(...): break
PowerStopZero(p) ==
    \E records \in PowerPayloads(cursor[p]) :
        /\ PowerAnswer(p, records)
        /\ ~PowerNoRecords(records)
        /\ PowerAllZero(records)
        /\ Break(p, "all_zero")
        /\ UNCHANGED validated

\* the day passes both stop conditions: its documents are prepared, and a
\* time that does not parse raises ValueError out of the script
PowerValidated(p) ==
    \E records \in PowerPayloads(cursor[p]) :
        /\ PowerAnswer(p, records)
        /\ ~PowerNoRecords(records)
        /\ ~PowerAllZero(records)
        /\ validated < MaxWindows
        /\ validated' = validated + 1
        /\ IF PowerDocsRaise(records)
           THEN Raise(p, "ValueError")
           ELSE /\ docs' = [docs EXCEPT ![p] = PowerDocs(records)]
                /\ pc' = [pc EXCEPT ![p] = "insert"]
                /\ last' = [last EXCEPT ![p] = "validated"]
                /\ UNCHANGED cursor

\* pwr.insert_many(docs, ordered=False), duplicate keys tolerated; pymongo
\* raises TypeError for an empty list of documents
PowerInsert(p) ==
    /\ pc[p] = "insert"
    /\ p \in PowerProcs
    /\ \E fault \in BOOLEAN :
          LET res == IF fault THEN [coll |-> pwr, errs |-> <<OtherWriteError>>]
                     ELSE InsertManyPower(pwr, docs[p])
          IN  IF docs[p] = <<>>
              THEN /\ ~fault
                   /\ Raise(p, "TypeError")
                   /\ UNCHANGED pwr
              ELSE /\ pwr' = res.coll
                   /\ IF HasRealFailure(res.errs)
                      THEN Raise(p, "BulkWriteError")
                      ELSE /\ pc' = [pc EXCEPT ![p] = "cursor"]
                           /\ last' = [last EXCEPT ![p] = "inserted"]
                           /\ UNCHANGED <<cursor, docs>>
    /\ UNCHANGED <<ener, meta, pwr_v2, ener_v2, runs, resumed, daily,
                   start_cursor, requests, persisted, anchor0, validated>>

\* if ok: meta.update_one(... last_date = cursor ...), then cursor -= 1 day
\* and the pause
PowerWriteCursor(p) ==
    /\ pc[p] = "cursor"
    /\ p \in PowerProcs
    /\ meta' = UpdateOneUpsert(meta, PowerCursorFilter, cursor[p])
    /\ Persisted(p, cursor[p], cursor[p], docs[p])
    /\ cursor' = [cursor EXCEPT ![p] = cursor[p] - 1]
    /\ pc' = [pc EXCEPT ![p] = "fetch"]
    /\ last' = [last EXCEPT ![p] = "saved"]
    /\ UNCHANGED <<pwr, ener, pwr_v2, ener_v2, docs, runs, resumed, daily,
                   start_cursor, requests, anchor0, validated>>

\* the loop of the script, once started
PowerLoop(p) ==
    \/ PowerFetchFail(p)
    \/ PowerRetry(p)
    \/ PowerStopEmpty(p)
    \/ PowerStopZero(p)
    \/ PowerValidated(p)
    \/ PowerInsert(p)
    \/ PowerWriteCursor(p)

PowerStep(p) == PowerStart(p) \/ PowerLoop(p)

\* ------------------------------------------------------------ pull_daily.py

\* the outcome of a validate_and_upsert_* call: what it returns, the
\* collection after it, the exception that leaves it, and what it printed
Outcome(result, coll, exc, why) ==
    [result |-> result, coll |-> coll, exc |-> exc, why |-> why]

\* ener.update_one({"plant_id", "date"}, {"$set": doc}, upsert=True)
UpdateOneEnergy(coll, doc) ==
    IF \E x \in coll : x.plant_id = doc.plant_id /\ x.date = doc.date
    THEN LET x == CHOOSE y \in coll : y.plant_id = doc.plant_id /\ y.date = doc.date
         IN  (coll \ {x}) \cup {doc}
    ELSE coll \cup {doc}

\* dt.datetime.combine(day, dt.time.min, tzinfo=IST), as the UTC instant stored
IstMidnight(day) == day * MinutesPerDay - IstOffsetMin

\* mutant of ValidateAndUpsertEnergy: the sign of the energy is not looked at
ValidateAndUpsertEnergyAnySign(energy_data, date, coll, fault) ==
    IF energy_data.none \/ energy_data.rows = <<>>
    THEN Outcome(NoEnergy, coll, Absent, "no_energy_data")
    ELSE IF Len(energy_data.rows) # 1
    THEN Outcome(NoEnergy, coll, Absent, "multiple_records")
    ELSE LET energy_record == energy_data.rows[1]
             day == FromIsoformat(energy_record.date)
             kwh == Float(energy_record.energy)
         IN  IF energy_record.date.k = "missing" \/ energy_record.energy.k = "missing"
             THEN Outcome(NoEnergy, coll, "KeyError", "raised")
             ELSE IF ~day.ok \/ ~kwh.ok
             THEN Outcome(NoEnergy, coll, Absent, "invalid")
             ELSE IF day.v # date
             THEN Outcome(NoEnergy, coll, Absent, "date_mismatch")
             ELSE IF fault
             THEN Outcome(NoEnergy, coll, Absent, "upsert_error")
             ELSE Outcome(kwh.v,
                          UpdateOneEnergy(coll, [plant_id |-> PLANT_ID,
                                                 date |-> IstMidnight(day.v),
                                                 energy_kwh |-> kwh.v]),
                          Absent, "upserted")

\* validate_and_upsert_energy_data(energy_data, date): what it returns and
\* what it leaves in daily_energy; fault: the store fails the upsert
ValidateAndUpsertEnergy(energy_data, date, coll, fault) ==
    IF energy_data.none \/ energy_data.rows = <<>>
    THEN Outcome(NoEnergy, coll, Absent, "no_energy_data")
    ELSE IF Len(energy_data.rows) # 1
    THEN Outcome(NoEnergy, coll, Absent, "multiple_records")
    ELSE LET energy_record == energy_data.rows[1]
             day == FromIsoformat(energy_record.date)
             kwh == Float(energy_record.energy)
         IN  IF energy_record.date.k = "missing" \/ energy_record.energy.k = "missing"
             THEN Outcome(NoEnergy, coll, "KeyError", "raised")
             ELSE IF ~day.ok \/ ~kwh.ok
             THEN Outcome(NoEnergy, coll, Absent, "invalid")
             ELSE IF day.v # date
             THEN Outcome(NoEnergy, coll, Absent, "date_mismatch")
             ELSE IF kwh.v < 0
             THEN Outcome(NoEnergy, coll, Absent, "negative")
             ELSE IF fault
             THEN Outcome(NoEnergy, coll, Absent, "upsert_error")
             ELSE Outcome(kwh.v,
                          UpdateOneEnergy(coll, [plant_id |-> PLANT_ID,
                                                 date |-> IstMidnight(day.v),
                                                 energy_kwh |-> kwh.v]),
                          Absent, "upserted")

\* mutant of DailyPowerValue: a null power is not coerced
DailyPowerValueNoCoerce(t) == Float(t)

\* float(record.get("power", 0.0) or 0.0)
DailyPowerValue(t) ==
    IF Truthy(t) THEN Float(t) ELSE [ok |-> TRUE, v |-> 0, exc |-> Absent]

\* the loop over the records: those with a time that parses and a power that
\* is a number (null counts as 0.0) become documents, timestamps taken as IST
RECURSIVE DailyPowerDocs(_)
DailyPowerDocs(power_data) ==
    IF power_data = <<>> THEN <<>>
    ELSE LET record == Head(power_data)
             naive_timestamp == FromIsoformat(record.time)
             power == DailyPowerValue(record.power)
         IN  IF Truthy(record.time) /\ naive_timestamp.ok /\ power.ok
             THEN <<[plant_id |-> PLANT_ID,
                     timestamp |-> naive_timestamp.v - IstOffsetMin,
                     power_w |-> power.v]>> \o DailyPowerDocs(Tail(power_data))
             ELSE DailyPowerDocs(Tail(power_data))

\* validate_and_upsert_power_data(power_data, date, energy) as one step: what
\* it leaves in power_readings (it returns None); fault: the store fails the
\* insert, which is printed and not raised
ValidateAndUpsertPower(power_data, date, energy_arg, coll, fault) ==
    IF power_data.none \/ power_data.rows = <<>>
    THEN Outcome(Absent, coll, Absent, "no_power_data")
    ELSE IF \A i \in 1..Len(power_data.rows) : PowerZeroish(power_data.rows[i].power)
    THEN Outcome(Absent, coll, Absent, "all_zero")
    ELSE LET ds == DailyPowerDocs(power_data.rows)
         IN  IF ds = <<>>
             THEN Outcome(Absent, coll, Absent, "no_valid_records")
             ELSE IF fault
             THEN Outcome(Absent, coll, Absent, "insert_error")
             ELSE Outcome(Absent, InsertManyPower(coll, ds).coll, Absent, "inserted")

\* pull_daily_data(date) is called; history: with again, for the date of the
\* sync that just completed and with the upstream answering the same
DailyStart(p) ==
    /\ p \in DailyProcs
    /\ pc[p] \in Ended
    /\ TotalRuns < MaxRuns
    /\ \E date \in DailyDates, again \in BOOLEAN :
          /\ again => pc[p] = "done" /\ date = cursor[p] /\ ~snapshot[p].faulted
          /\ cursor' = [cursor EXCEPT ![p] = date]
          /\ replay' = [replay EXCEPT ![p] = again]
          /\ energy_payload' = [energy_payload EXCEPT ![p] = IF again THEN @ ELSE NoPayload]
          /\ power_payload' = [power_payload EXCEPT ![p] = IF again THEN @ ELSE NoPayload]
    /\ runs' = [runs EXCEPT ![p] = @ + 1]
    /\ resumed' = [resumed EXCEPT ![p] = pc[p] = "killed"]
    /\ pc' = [pc EXCEPT ![p] = "energy"]
    /\ energy' = [energy EXCEPT ![p] = NoEnergy]
    /\ docs' = [docs EXCEPT ![p] = <<>>]
    /\ snapshot' = [snapshot EXCEPT ![p] = [pwr |-> pwr_v2, ener |-> ener_v2, faulted |-> FALSE]]
    /\ last' = [last EXCEPT ![p] = "start"]
    /\ UNCHANGED <<stores, tally, view, start_cursor, requests, persisted, anchor0, validated>>

\* energy_payload = pull_energy_data(date);
\* energy = validate_and_upsert_energy_data(energy_payload, date);
\* an exception is caught by pull_daily_data, which prints it and returns
DailyEnergy(p) ==
    /\ pc[p] = "energy"
    /\ \E payload \in IF replay[p] THEN {energy_payload[p]}
                     ELSE {Rows(r) : r \in DailyEnergyPayloads(cursor[p])} \cup {NoPayload},
          fault \in IF replay[p] THEN {FALSE} ELSE BOOLEAN :
          LET out == ValidateAndUpsertEnergy(payload, cursor[p], ener_v2, fault)
          IN  /\ energy_payload' = [energy_payload EXCEPT ![p] = payload]
              /\ ener_v2' = out.coll
              /\ energy' = [energy EXCEPT ![p] = out.result]
              /\ last' = [last EXCEPT ![p] = out.why]
              /\ pc' = [pc EXCEPT ![p] = IF out.exc # Absent THEN "done" ELSE "sleep"]
              /\ snapshot' = [snapshot EXCEPT ![p].faulted = @ \/ out.why = "upsert_error"]
    /\ UNCHANGED <<pwr, ener, meta, pwr_v2, cursor, docs, runs, resumed, power_payload, replay,
                   tally, view, start_cursor, requests, persisted, anchor0, validated>>

\* time.sleep(PAUSE_S)
DailySleep(p) ==
    /\ pc[p] = "sleep"
    /\ pc' = [pc EXCEPT ![p] = "power"]
    /\ last' = [last EXCEPT ![p] = "slept"]
    /\ UNCHANGED <<stores, cursor, docs, runs, resumed, daily, start_cursor, requests,
                   persisted, anchor0, validated>>

\* power_payload = pull_power_data(date);
\* validate_and_upsert_power_data(power_payload, date, energy=energy)
DailyPower(p) ==
    /\ pc[p] = "power"
    /\ \E payload \in IF replay[p] THEN {power_payload[p]}
                     ELSE {Rows(r) : r \in DailyPowerPayloads(cursor[p])} \cup {NoPayload},
          fault \in IF replay[p] THEN {FALSE} ELSE BOOLEAN :
          LET out == ValidateAndUpsertPower(payload, cursor[p], energy[p], pwr_v2, fault)
          IN  /\ power_payload' = [power_payload EXCEPT ![p] = payload]
              /\ pwr_v2' = out.coll
              /\ docs' = [docs EXCEPT ![p] = IF out.why \in {"inserted", "insert_error"}
                                             THEN DailyPowerDocs(payload.rows)
                                             ELSE <<>>]
              /\ last' = [last EXCEPT ![p] = out.why]
              /\ snapshot' = [snapshot EXCEPT ![p].faulted = @ \/ out.why = "insert_error"]
    /\ pc' = [pc EXCEPT ![p] = "done"]
    /\ UNCHANGED <<pwr, ener, meta, ener_v2, cursor, runs, resumed, energy, energy_payload, replay,
                   tally, view, start_cursor, requests, persisted, anchor0, validated>>

\* interval_hours = 5 / 60
IntervalHours == DoubleDivInt(DoubleOfInt(5), 60)

\* the float of an energy the model keeps in Wh: float("1.05") for 1050
Kwh(wh) == DoubleDivInt(DoubleOfInt(wh), 1000)

\* the loop's locals: the records handled so far and total_energy_wh; and
\* whether the energy mismatch was printed
Tally(records, total_energy_wh, mismatch) ==
    [records |-> records, total_energy_wh |-> total_energy_wh, mismatch |-> mismatch]
NoTally == Tally(0, Zero, FALSE)

\* mutant of EnergyMismatch: a difference of exactly 1.0 is a mismatch too
EnergyMismatchFromTolerance(total_energy_kwh, energy_arg) ==
    /\ energy_arg # NoEnergy
    /\ ~DoubleLess(DoubleAbsDiff(total_energy_kwh, Kwh(energy_arg)), DoubleOfInt(1))

\* if energy is not None: energy_diff = abs(total_energy_kwh - energy);
\* if energy_diff > 1.0: print the mismatch
EnergyMismatch(total_energy_kwh, energy_arg) ==
    /\ energy_arg # NoEnergy
    /\ DoubleLess(DoubleOfInt(1), DoubleAbsDiff(total_energy_kwh, Kwh(energy_arg)))

\* the same call, record by record. It is entered: power_payload =
\* pull_power_data(date), the two early returns, docs = [] and
\* total_energy_wh = 0.0
PowerDataEnter(p) ==
    /\ pc[p] = "power"
    /\ \E payload \in {Rows(r) : r \in IntegratePayloads(cursor[p])} \cup {NoPayload} :
          /\ power_payload' = [power_payload EXCEPT ![p] = payload]
          /\ IF payload.none \/ payload.rows = <<>>
             THEN /\ pc' = [pc EXCEPT ![p] = "done"]
                  /\ last' = [last EXCEPT ![p] = "no_power_data"]
             ELSE IF \A i \in 1..Len(payload.rows) : PowerZeroish(payload.rows[i].power)
             THEN /\ pc' = [pc EXCEPT ![p] = "done"]
                  /\ last' = [last EXCEPT ![p] = "all_zero"]
             ELSE /\ pc' = [pc EXCEPT ![p] = "loop"]
                  /\ last' = [last EXCEPT ![p] = "entered"]
    /\ docs' = [docs EXCEPT ![p] = <<>>]
    /\ tally' = [tally EXCEPT ![p] = NoTally]
    /\ UNCHANGED <<stores, cursor, runs, resumed, energy, energy_payload, replay, snapshot,
                   view, start_cursor, requests, persisted, anchor0, validated>>

\* one turn of the loop: a record with a time that parses and a power that is
\* a number (null counts as 0.0) becomes a document, timestamp taken as IST,
\* and total_energy_wh += power * interval_hours; any other record is skipped
PowerDataRecord(p) ==
    /\ pc[p] = "loop"
    /\ tally[p].records < Len(power_payload[p].rows)
    /\ LET record == power_payload[p].rows[tally[p].records + 1]
           naive_timestamp == FromIsoformat(record.time)
           power == DailyPowerValue(record.power)
           kept == Truthy(record.time) /\ naive_timestamp.ok /\ power.ok
       IN  /\ docs' = [docs EXCEPT ![p] =
                          IF kept
                          THEN Append(@, [plant_id |-> PLANT_ID,
                                          timestamp |-> naive_timestamp.v - IstOffsetMin,
                                          power_w |-> power.v])
                          ELSE @]
           /\ tally' = [tally EXCEPT
                          ![p].records = @ + 1,
                          ![p].total_energy_wh =
                              IF kept
                              THEN DoubleAdd(@, DoubleMul(DoubleOfInt(power.v), IntervalHours))
                              ELSE @]
           /\ last' = [last EXCEPT ![p] = IF kept THEN "kept" ELSE "skipped"]
    /\ UNCHANGED <<stores, pc, cursor, runs, resumed, energy, energy_payload, power_payload,
                   replay, snapshot, view, start_cursor, requests, persisted, anchor0,
                   validated>>

\* total_energy_kwh = total_energy_wh / 1000.0
TotalEnergyKwh(total_energy_wh) == DoubleDivInt(total_energy_wh, 1000)

\* after the loop: the return when no record was kept; the total and the
\* mismatch are printed; pwr.insert_many(docs, ordered=False), whose errors
\* are printed and not raised
PowerDataInsert(p) ==
    /\ pc[p] = "loop"
    /\ tally[p].records = Len(power_payload[p].rows)
    /\ IF docs[p] = <<>>
       THEN /\ last' = [last EXCEPT ![p] = "no_valid_records"]
            /\ UNCHANGED <<pwr_v2, tally, snapshot>>
       ELSE \E fault \in BOOLEAN :
               /\ tally' = [tally EXCEPT ![p].mismatch =
                               EnergyMismatch(TotalEnergyKwh(tally[p].total_energy_wh),
                                              energy[p])]
               /\ pwr_v2' = IF fault THEN pwr_v2 ELSE InsertManyPower(pwr_v2, docs[p]).coll
               /\ last' = [last EXCEPT ![p] = IF fault THEN "insert_error" ELSE "inserted"]
               /\ snapshot' = [snapshot EXCEPT ![p].faulted = @ \/ fault]
    /\ pc' = [pc EXCEPT ![p] = "done"]
    /\ UNCHANGED <<pwr, ener, meta, ener_v2, cursor, docs, runs, resumed, energy,
                   energy_payload, power_payload, replay, view, start_cursor, requests,
                   persisted, anchor0, validated>>

\* pull_daily_data, once called
DailyBody(p) ==
    \/ DailyEnergy(p)
    \/ DailySleep(p)
    \/ DailyPower(p)

DailyStep(p) == DailyStart(p) \/ DailyBody(p)

\* ------------------------------------------------------------------- app.py

\* dt.datetime counts microseconds; a minute has 60 000 000 of them
MicrosPerMinute == 60000000

\* a naive dt.datetime: the minutes since day 0 at 00:00 of its wall clock and
\* the microseconds within the minute
Instant(min, us) == [min |-> min, us |-> us]

\* dt.time.min is 00:00:00, dt.time.max is 23:59:59.999999
\* mutant of TimeMax: the last whole second of the day
TimeMaxWholeSecond == Instant(MinutesPerDay - 1, MicrosPerMinute - 1000000)

TimeMin == Instant(0, 0)
TimeMax == Instant(MinutesPerDay - 1, MicrosPerMinute - 1)

\* dt.datetime.combine(date, time)
Combine(date, time) == Instant(date * MinutesPerDay + time.min, time.us)

\* IST.localize(naive): the same wall clock, with Asia/Kolkata's offset, which
\* is +05:30 for every date the date pickers offer
Localize(naive) == [min |-> naive.min, us |-> naive.us, utcoffset |-> IstOffsetMin]

\* aware.astimezone(UTC): the same instant on UTC's wall clock
AstimezoneUtc(aware) ==
    [min |-> aware.min - aware.utcoffset, us |-> aware.us, utcoffset |-> 0]

\* ist_day_window(date_ist): (utc_start, utc_end) for the IST day
IstDayWindow(date_ist) ==
    LET ist_start == Localize(Combine(date_ist, TimeMin))
        ist_end == Localize(Combine(date_ist, TimeMax))
    IN  [utc_start |-> AstimezoneUtc(ist_start), utc_end |-> AstimezoneUtc(ist_end)]

\* the dates a date picker may hand over: days around today
PickerDates == 0..(Today + 1)

\* nothing rendered yet
NoView == [period |-> "none", start_date |-> NoDate, end_date |-> NoDate,
           collection |-> Absent, gte |-> Absent, lte |-> Absent]

\* a rerun with period "Day": the window of sel_day, and fetch_power's query
\* {"timestamp": {"$gte": start_utc, "$lte": end_utc}} on power_readings; the
\* frame the query (or st.cache_data) returns and its chart are not followed
AppDay ==
    \E sel_day \in PickerDates :
        LET window == IstDayWindow(sel_day)
        IN  view' = [period |-> "Day", start_date |-> sel_day, end_date |-> sel_day,
                     collection |-> "power_readings",
                     gte |-> window.utc_start, lte |-> window.utc_end]

\* a rerun with period "Week", "Month" or "Year": fetch_energy(start, end)
\* queries daily_energy from the start of the first day's window to the end of
\* the last day's; a range of which one date only is picked yet queries nothing
AppRange ==
    \E start_date \in PickerDates, end_date \in PickerDates \cup {NoDate} :
        /\ end_date # NoDate => start_date <= end_date
        /\ view' = IF end_date = NoDate
                   THEN [NoView EXCEPT !.period = "Week", !.start_date = start_date]
                   ELSE [period |-> "Week", start_date |-> start_date,
                         end_date |-> end_date, collection |-> "daily_energy",
                         gte |-> IstDayWindow(start_date).utc_start,
                         lte |-> IstDayWindow(end_date).utc_end]

\* a rerun of the dashboard's script writes nothing
AppFrame ==
    UNCHANGED <<stores, pc, cursor, docs, runs, resumed, energy, energy_payload,
                power_payload, replay, snapshot, tally, start_cursor, requests, last,
                persisted, anchor0, validated>>

\* ------------------------------------------------------------ specification

Init ==
    /\ pwr = EmptyBag
    /\ ener = {}
    /\ meta = <<>>
    /\ pwr_v2 = EmptyBag
    /\ ener_v2 = {}
    /\ pc = [p \in Procs |-> "idle"]
    /\ cursor = [p \in Procs |-> NoDate]
    /\ docs = [p \in Procs |-> <<>>]
    /\ energy = [p \in Procs |-> NoEnergy]
    /\ runs = [p \in Procs |-> 0]
    /\ resumed = [p \in Procs |-> FALSE]
    /\ start_cursor = [p \in Procs |-> NoDate]
    /\ requests = [p \in Procs |-> {}]
    /\ last = [p \in Procs |-> "idle"]
    /\ persisted = [p \in Procs |-> {}]
    /\ anchor0 = [p \in Procs |-> NoDate]
    /\ validated = 0
    /\ energy_payload = [p \in Procs |-> NoPayload]
    /\ power_payload = [p \in Procs |-> NoPayload]
    /\ replay = [p \in Procs |-> FALSE]
    /\ snapshot = [p \in Procs |-> [pwr |-> EmptyBag, ener |-> {}, faulted |-> FALSE]]
    /\ tally = [p \in Procs |-> NoTally]
    /\ view = NoView

\* no other script has been invoked in this behaviour
Only(p) == \A q \in Procs \ {p} : runs[q] = 0

\* the two backfill scripts: one is started when no other script runs
NextBackfill ==
    \/ \E p \in EnergyProcs \cap Serial : (Alone(p) /\ EnergyStart(p)) \/ EnergyLoop(p) \/ Kill(p)
    \/ \E p \in PowerProcs \cap Serial : (Alone(p) /\ PowerStart(p)) \/ PowerLoop(p) \/ Kill(p)

\* the single-day sync
NextDaily == \E p \in DailyProcs : DailyStart(p) \/ DailyBody(p) \/ Kill(p)

\* one single-day sync, its power records followed one by one
NextIntegrate ==
    \E p \in DailyProcs :
        \/ runs[p] = 0 /\ DailyStart(p)
        \/ DailyEnergy(p)
        \/ DailySleep(p)
        \/ PowerDataEnter(p)
        \/ PowerDataRecord(p)
        \/ PowerDataInsert(p)
        \/ Kill(p)

\* the dashboard, rerun at every selection
NextApp ==
    \/ AppDay /\ AppFrame
    \/ AppRange /\ AppFrame

\* the three scripts: one is started when no other script runs
Next ==
    \/ \E p \in EnergyProcs \cap Serial : (Alone(p) /\ EnergyStart(p)) \/ EnergyLoop(p) \/ Kill(p)
    \/ \E p \in PowerProcs \cap Serial : (Alone(p) /\ PowerStart(p)) \/ PowerLoop(p) \/ Kill(p)
    \/ \E p \in DailyProcs : (Alone(p) /\ DailyStart(p)) \/ DailyBody(p) \/ Kill(p)

\* one script, whichever, invoked again and again
NextScript ==
    \/ \E p \in EnergyProcs \cap Serial : (Only(p) /\ EnergyStart(p)) \/ EnergyLoop(p) \/ Kill(p)
    \/ \E p \in PowerProcs \cap Serial : (Only(p) /\ PowerStart(p)) \/ PowerLoop(p) \/ Kill(p)
    \/ \E p \in DailyProcs : (Only(p) /\ DailyStart(p)) \/ DailyBody(p) \/ Kill(p)

\* one backfill script, whichever, which nobody kills
NextDriver ==
    \/ \E p \in EnergyProcs \cap Serial : (Only(p) /\ EnergyStart(p)) \/ EnergyLoop(p)
    \/ \E p \in PowerProcs \cap Serial : (Only(p) /\ PowerStart(p)) \/ PowerLoop(p)

\* every script invoked so far is the script of p
SameScript(p) ==
    \A q \in Procs :
        runs[q] > 0 => (q \in EnergyProcs <=> p \in EnergyProcs) /\ q \notin DailyProcs

\* one backfill script, whichever, started again while it may still run: the
\* steps of the two runs interleave
NextConcurrent ==
    \/ \E p \in EnergyProcs : (SameScript(p) /\ EnergyStart(p)) \/ EnergyLoop(p) \/ Kill(p)
    \/ \E p \in PowerProcs : (SameScript(p) /\ PowerStart(p)) \/ PowerLoop(p) \/ Kill(p)

\* the upstream API answers a request of a backfill script
EnergyAnswered(p) == EnergyStopEmpty(p) \/ EnergyStopZero(p) \/ EnergyValidated(p)
PowerAnswered(p) == PowerStopEmpty(p) \/ PowerStopZero(p) \/ PowerValidated(p)

\* the pause of a failed fetch ends (time.sleep returns and the loop goes on),
\* and an upstream that is asked again and again answers in the end
Fairness ==
    /\ \A p \in EnergyProcs : WF_vars(EnergyRetry(p)) /\ SF_vars(EnergyAnswered(p))
    /\ \A p \in PowerProcs : WF_vars(PowerRetry(p)) /\ SF_vars(PowerAnswered(p))

Spec == Init /\ [][Next]_vars
SpecBackfill == Init /\ [][NextBackfill]_vars
SpecDaily == Init /\ [][NextDaily]_vars
SpecIntegrate == Init /\ [][NextIntegrate]_vars
SpecApp == Init /\ [][NextApp]_vars
SpecConcurrent == Init /\ [][NextConcurrent]_vars
SpecScript == Init /\ [][NextScript]_vars
SpecDriver == Init /\ [][NextDriver]_vars /\ Fairness

\* ------------------------------------------------------------------ claims

BackfillProcs == EnergyProcs \cup PowerProcs

\* the payload a backfill script holds: the last answer of the upstream API
Payload(p) == IF p \in EnergyProcs THEN energy_payload[p] ELSE power_payload[p]

\* C1: a backfill run that found the cursor last_date = X requests, first, a
\* window that ends at X - 1, and requests no window that reaches X or later.
C1_ResumeBelowCursor ==
    \A p \in BackfillProcs :
        start_cursor[p] # NoDate /\ requests[p] # {} =>
            /\ \E w \in requests[p] : w.end = start_cursor[p] - 1
            /\ \A w \in requests[p] : w.end < start_cursor[p]

\* the documents ds a backfill script prepared are in its collection
Stored(p, ds) ==
    \A k \in 1..Len(ds) :
        IF p \in EnergyProcs THEN EnergyKeyTaken(ener, ds[k]) ELSE BagIn(ds[k], pwr)

\* the scripts whose cursor a document of ingest_meta is
CursorOwners(m) == IF m.metric = "energy" THEN EnergyProcs ELSE PowerProcs

\* every persisted cursor names the start of a window its script has
\* persisted, the rows of which are in the store
CursorNamesStoredWindow ==
    \A i \in 1..Len(meta) :
        \E p \in CursorOwners(meta[i]) :
            \E w \in persisted[p] :
                w.start = meta[i].last_date /\ Stored(p, w.docs)

\* the cursor is written only by a script whose insert has just completed, its
\* documents stored
CursorWrittenAfterInsert ==
    meta' # meta =>
        \E p \in BackfillProcs :
            pc[p] = "cursor" /\ last[p] = "inserted" /\ Stored(p, docs[p])

\* an insert that raises leaves the cursor as it is
FailedInsertKeepsCursor ==
    \A p \in BackfillProcs :
        pc[p] = "insert" /\ pc'[p] = "crashed" => meta' = meta

\* C2: the cursor is written to a window's start only after the insert of the
\* window's rows completed; in every state the persisted cursor names a window
\* whose valid rows are all in the store; an insert that raises a
\* non-duplicate error leaves the cursor unchanged.
C2_WriteAfterData ==
    /\ []CursorNamesStoredWindow
    /\ [][CursorWrittenAfterInsert /\ FailedInsertKeepsCursor]_vars

\* how many stored documents have the natural key of d, in the collection of p
Copies(p, d) ==
    IF p \in EnergyProcs
    THEN Cardinality({x \in ener : x.plant_id = d.plant_id /\ x.date = d.date})
    ELSE LET same == {x \in BagToSet(pwr) :
                          x.plant_id = d.plant_id /\ x.timestamp = d.timestamp}
         IN  SumOver([x \in same |-> CopiesIn(x, pwr)], same)

\* the earliest date a persisted window of p reaches
Reached(p) ==
    CHOOSE d \in {w.start : w \in persisted[p]} :
        \A w \in persisted[p] : d <= w.start

\* every date from the first anchor down to the last persisted window lies in
\* a persisted window
NoGap(p) ==
    \A d \in Reached(p)..anchor0[p] :
        \E w \in persisted[p] : w.start <= d /\ d <= w.end

\* every row of a persisted window is in the store exactly once
ExactlyOnce(p) ==
    \A w \in persisted[p] : \A k \in 1..Len(w.docs) : Copies(p, w.docs[k]) = 1

\* C3: when a backfill run was killed and a fresh run has stopped, every date
\* from the first anchor down to the last persisted window is covered by a
\* persisted window (no gap) and its valid rows are in the store exactly once.
C3_CrashSafety ==
    \A p \in BackfillProcs :
        resumed[p] /\ pc[p] = "stopped" /\ persisted[p] # {} =>
            NoGap(p) /\ ExactlyOnce(p)

\* C4: a single-day sync that repeats the sync just completed, for the same
\* date and with the upstream answering the same, leaves the power samples and
\* the daily energy documents as the first sync left them.
C4_SyncIdempotent ==
    \A p \in DailyProcs :
        replay[p] /\ pc[p] = "done" =>
            pwr_v2 = snapshot[p].pwr /\ ener_v2 = snapshot[p].ener

\* a step of a backfill script in which the upstream API answers
Answered(p) == pc[p] = "fetch" /\ pc'[p] \notin {"fetch", "retry", "killed"}

\* an answered step stops the script and writes nothing
StopsClean(p) ==
    /\ pc'[p] = "stopped"
    /\ pwr' = pwr /\ ener' = ener /\ meta' = meta
    /\ persisted' = persisted

\* C5: when the answer for a backfill window has no rows, the script stops,
\* inserts nothing and writes no cursor: the cursor stays what it was.
C5_StopOnEmpty ==
    [][\A p \in BackfillProcs :
          Answered(p) /\ Payload(p)'.rows = <<>> => StopsClean(p)]_vars

\* a backfill script stopped on an empty answer while its cursor, written by
\* an earlier window, is in the store
C5_Witness ==
    \E p \in BackfillProcs :
        /\ pc[p] = "stopped"
        /\ Payload(p) = Rows(<<>>)
        /\ persisted[p] # {}
        /\ \E i \in 1..Len(meta) : \E w \in persisted[p] : meta[i].last_date = w.start

\* the value a row of the payload of p reports
RowValue(p, r) == IF p \in EnergyProcs THEN r.energy ELSE r.power

\* a reported value that is null, or zero as a number
ZeroValue(t) ==
    \/ t.k \in {"none", "empty"}
    \/ Float(t).ok /\ Float(t).v = 0

AllZeroValues(p, rows) ==
    \A i \in 1..Len(rows) : ZeroValue(RowValue(p, rows[i]))

\* C6: when every row of a non-empty answer reports a null or zero value, the
\* script stops, stores none of the rows and writes no cursor; an answer with
\* a row that is neither null nor zero never stops the script this way.
C6_StopOnAllZero ==
    [][\A p \in BackfillProcs :
          Answered(p) /\ Payload(p)'.rows # <<>> =>
              IF AllZeroValues(p, Payload(p)'.rows)
              THEN StopsClean(p)
              ELSE pc'[p] # "stopped"]_vars

\* the step in which the single-day sync handles the energy answer
EnergyHandled(p) == pc[p] = "energy" /\ pc'[p] \in {"sleep", "done"}

\* exactly one record, of the requested date, with a non-negative energy
Acceptable(payload, date) ==
    /\ ~payload.none
    /\ Len(payload.rows) = 1
    /\ payload.rows[1].date = Iso(date)
    /\ payload.rows[1].energy.k \in {"num", "str", "dec"}
    /\ payload.rows[1].energy.v >= 0

\* no record, several records, the record of another date, a negative energy
Rejectable(payload, date) ==
    /\ ~payload.none
    /\ \/ Len(payload.rows) = 0
       \/ Len(payload.rows) >= 2
       \/ /\ Len(payload.rows) = 1
          /\ \/ payload.rows[1].date.k = "iso" /\ payload.rows[1].date.v # date
             \/ /\ payload.rows[1].energy.k \in {"num", "str", "dec"}
                /\ payload.rows[1].energy.v < 0

EnergyValidation(p) ==
    LET payload == energy_payload'[p]
        date == cursor[p]
    IN  /\ ener_v2' # ener_v2 \/ energy'[p] # NoEnergy => Acceptable(payload, date)
        /\ Rejectable(payload, date) => ener_v2' = ener_v2 /\ energy'[p] = NoEnergy
        /\ Acceptable(payload, date) /\ last'[p] # "upsert_error" =>
              /\ energy'[p] = payload.rows[1].energy.v
              /\ \E x \in ener_v2' :
                    /\ x.date = IstMidnight(date)
                    /\ x.energy_kwh = payload.rows[1].energy.v

\* C7: the single-day sync writes a DailyEnergy document, and returns its
\* value, only for an answer of exactly one record whose date is the requested
\* one and whose energy is not negative; no record, several records, another
\* date or a negative energy write nothing and return None.
C7_EnergyValidation ==
    [][\A p \in DailyProcs : EnergyHandled(p) => EnergyValidation(p)]_vars

\* a negative energy was rejected while the document of an earlier sync stays
C7_Witness ==
    \E p \in DailyProcs :
        /\ last[p] = "negative"
        /\ energy[p] = NoEnergy
        /\ Len(energy_payload[p].rows) = 1
        /\ energy_payload[p].rows[1].energy.v < 0
        /\ ener_v2 # {}

Collisions(coll, ds) ==
    {k \in 1..Len(ds) :
        \E x \in BagToSet(coll) :
            x.plant_id = ds[k].plant_id /\ x.timestamp = ds[k].timestamp}

\* the insert of ds adds one document for each key that was not stored yet and
\* leaves the stored documents as they are
AddsOnlyNew(before, after, ds) ==
    /\ BagCardinality(after) =
           BagCardinality(before) + Len(ds) - Cardinality(Collisions(before, ds))
    /\ before \sqsubseteq after

\* C9: an insert of n power documents of which k have a stored key, that
\* reports no error, stores exactly n - k new documents and changes no stored
\* document.
C9_DuplicateTolerantInsert ==
    [][/\ \A p \in PowerProcs :
             pc[p] = "insert" /\ pc'[p] = "cursor" => AddsOnlyNew(pwr, pwr', docs[p])
       /\ \A p \in DailyProcs :
             pc[p] = "power" /\ last'[p] = "inserted" =>
                 AddsOnlyNew(pwr_v2, pwr_v2', docs'[p])]_vars

\* a failed fetch and the pause after it keep the window, the store and the
\* cursor, and the next request is for the same window
RetryKeepsWindow ==
    \A p \in BackfillProcs :
        /\ last'[p] = "api_error" => pc'[p] = "retry"
        /\ pc[p] = "fetch" /\ pc'[p] = "retry" =>
              /\ cursor'[p] = cursor[p]
              /\ pwr' = pwr /\ ener' = ener /\ meta' = meta
              /\ persisted' = persisted
        /\ pc[p] = "retry" /\ pc'[p] # "retry" =>
              /\ pc'[p] = "fetch"
              /\ cursor'[p] = cursor[p]
              /\ pwr' = pwr /\ ener' = ener /\ meta' = meta
              /\ persisted' = persisted
        /\ pc[p] = "fetch" /\ last[p] = "retrying" /\ pc'[p] # "fetch" =>
              requests'[p] = requests[p]

\* C10: a failed fetch of a backfill script is followed by a pause and a
\* request for the same window, with nothing persisted and the cursor kept,
\* and never ends the script; once the upstream answers, the window is handled.
C10_RetrySameWindow ==
    /\ [][RetryKeepsWindow]_vars
    /\ \A p \in BackfillProcs :
          (pc[p] = "retry") ~> (pc[p] \in {"stopped", "insert", "crashed"})

\* a script asks again, after a failed fetch, in the middle of a run
C10_Witness ==
    \E p \in BackfillProcs :
        pc[p] = "fetch" /\ last[p] = "retrying" /\ persisted[p] # {}

\* a run resumes from the last cursor value its own script wrote: the start of
\* the lowest window the script persisted, or from no cursor when it wrote none
ResumesFromOwnCursor ==
    \A p \in BackfillProcs :
        last[p] = "start" =>
            start_cursor[p] = IF persisted[p] = {} THEN NoDate ELSE Reached(p)

\* a cursor write adds or changes only a cursor document of the writing script
WritesOwnCursorOnly ==
    \A p \in BackfillProcs :
        pc[p] = "cursor" /\ meta' # meta =>
            \A i \in 1..Len(meta') :
                i > Len(meta) \/ meta'[i] # meta[i] => p \in CursorOwners(meta'[i])

\* C11: after any sequence of power and energy backfill runs, the cursor a
\* script resumes from is the last value that same script wrote, and a cursor
\* write of one script never changes the cursor document of the other.
C11_CursorIsolation ==
    /\ []ResumesFromOwnCursor
    /\ [][WritesOwnCursorOnly]_vars

\* the step in which the single-day sync, its documents prepared, prints its
\* reconciliation and inserts
PowerReconciled(p) == pc[p] = "loop" /\ last'[p] \in {"inserted", "insert_error"}

\* abs(calculated - reported), in kWh, and the tolerance of 1.0 kWh
EnergyDifference(p) ==
    DoubleAbsDiff(TotalEnergyKwh(tally[p].total_energy_wh), Kwh(energy[p]))
Tolerance == DoubleOfInt(1)

\* C12: the single-day sync reports an energy mismatch exactly when the energy
\* it calculated and the energy reported differ by strictly more than 1.0 kWh,
\* and the power samples are inserted whether or not it reports one.
C12_ReconcileTolerance ==
    [][\A p \in DailyProcs :
          /\ PowerReconciled(p) =>
                /\ tally'[p].mismatch <=>
                       energy[p] # NoEnergy /\ DoubleLess(Tolerance, EnergyDifference(p))
                /\ last'[p] = "inserted" => pwr_v2' = pwr_v2 (+) SeqToBag(docs[p])
          /\ tally'[p].mismatch # tally[p].mismatch =>
                PowerReconciled(p) \/ ~tally'[p].mismatch]_vars

\* a mismatch was reported and the samples of the day are stored
C12_Witness ==
    \E p \in DailyProcs :
        /\ last[p] = "inserted"
        /\ tally[p].mismatch
        /\ energy[p] # NoEnergy
        /\ docs[p] # <<>>
        /\ \A k \in 1..Len(docs[p]) : BagIn(docs[p][k], pwr_v2)

\* a record that is to be stored: its timestamp parses and its power is a
\* number or null
Storable(r) == r.time.k = "iso" /\ r.power.k \in {"num", "str", "dec", "none"}

\* the power, in W, a storable record counts for
CountedPower(r) == IF r.power.k = "none" THEN 0 ELSE r.power.v

\* the sum of the powers the storable records of rows count for
RECURSIVE SumPower(_)
SumPower(rows) ==
    IF Len(rows) = 0 THEN 0
    ELSE IF Len(rows) = 1
    THEN IF Storable(rows[1]) THEN CountedPower(rows[1]) ELSE 0
    ELSE LET half == Len(rows) \div 2
         IN  SumPower(SubSeq(rows, 1, half)) + SumPower(SubSeq(rows, half + 1, Len(rows)))

\* sum(power_w) x (5/60 h) / 1000, as floats
RectangleRule(rows) ==
    DoubleDivInt(DoubleMul(DoubleOfInt(SumPower(rows)), IntervalHours), 1000)

\* the rows are those of a full day at a constant 1000 W
FullDayOf1000W(rows) ==
    /\ Len(rows) = SamplesPerDay
    /\ \A i \in 1..Len(rows) : Storable(rows[i]) /\ rows[i].power = Num(1000)

\* C13: the energy the single-day sync calculates is sum(power_w) x (5/60 h)
\* / 1000 over exactly the records it stores, those whose timestamp parses and
\* whose power is a number or null (null counting as 0 W); for 288 samples of
\* 1000 W it is exactly 24.0 kWh.
C13_RectangleRule ==
    \A p \in DailyProcs :
        pc[p] = "done" /\ last[p] \in {"inserted", "insert_error"} =>
            LET rows == power_payload[p].rows
                kept == SelectSeq(rows, Storable)
                total_energy_kwh == TotalEnergyKwh(tally[p].total_energy_wh)
            IN  /\ Len(docs[p]) = Len(kept)
                /\ \A k \in 1..Len(kept) : docs[p][k].power_w = CountedPower(kept[k])
                /\ total_energy_kwh = RectangleRule(rows)
                /\ FullDayOf1000W(rows) => total_energy_kwh = DoubleOfInt(24)

\* later - earlier of two datetimes of one zone, as a timedelta in minutes and
\* microseconds
Since(later, earlier) ==
    IF later.us >= earlier.us
    THEN Instant(later.min - earlier.min, later.us - earlier.us)
    ELSE Instant(later.min - earlier.min - 1, later.us + MicrosPerMinute - earlier.us)

\* 24 hours minus dt.datetime's resolution, one microsecond
DayLessOneUnit == Instant(MinutesPerDay - 1, MicrosPerMinute - 1)

\* one microsecond
OneUnit == Instant(0, 1)

\* C14: for every date d the dashboard asks a window for, the window's end
\* minus its start is 24 hours minus one microsecond, and the window of d + 1
\* starts one microsecond after the end of the window of d: consecutive day
\* windows neither overlap nor leave an instant uncovered. A range of days
\* is queried from the start of its first window to the end of its last.
C14_DayWindowsTile ==
    /\ view.period = "Day" =>
          LET d == view.start_date
              next == IstDayWindow(d + 1)
          IN  /\ view.gte.utcoffset = 0 /\ view.lte.utcoffset = 0
              /\ Since(view.lte, view.gte) = DayLessOneUnit
              /\ Since(next.utc_start, view.lte) = OneUnit
              /\ view.gte.min = IstMidnight(d)
    /\ view.period = "Week" /\ view.end_date # NoDate =>
          /\ view.gte = IstDayWindow(view.start_date).utc_start
          /\ Since(view.lte, view.gte).min
                = (view.end_date - view.start_date + 1) * MinutesPerDay - 1
          /\ Since(view.lte, view.gte).us = DayLessOneUnit.us

C14_Witness ==
    /\ view.period = "Day"
    /\ view.start_date = Today
    /\ view.collection = "power_readings"
    /\ view.lte = [min |-> (Today + 1) * MinutesPerDay - IstOffsetMin - 1,
                   us |-> MicrosPerMinute - 1, utcoffset |-> 0]

\* the earliest date the windows requested in the run of p so far reach
LowestRequested(p) ==
    CHOOSE d \in {w.start : w \in requests[p]} : \A w \in requests[p] : d <= w.start

\* the windows requested in the run of p share no date, and leave no date out
\* between the first and the last of them
RequestsTile(p) ==
    /\ \A v, w \in requests[p] : v # w => v.end < w.start \/ w.end < v.start
    /\ \A w \in requests[p] :
          \/ \A v \in requests[p] : v.end <= w.end
          \/ \E v \in requests[p] : v.start = w.end + 1

\* a window requested for the first time in a run that had requested others
\* ends the day before the earliest of them, which has been persisted
RequestsStepBack(p) ==
    \A w \in requests'[p] \ requests[p] :
        requests[p] # {} =>
            /\ w.end = LowestRequested(p) - 1
            /\ w.start <= w.end
            /\ \E v \in persisted[p] :
                  v.start = LowestRequested(p) /\ [start |-> v.start, end |-> v.end] \in requests[p]

\* the cursor write of a window leaves the run at the day before its start
PersistStepsBack(p) ==
    \A w \in persisted'[p] \ persisted[p] : cursor'[p] = w.start - 1

\* C15: within one backfill run the windows requested go down in date, are
\* adjacent and do not overlap: after [start, end] is persisted the next
\* window requested ends at start - 1 day, so no date is requested by two
\* windows of the run and no date between two windows is skipped.
C15_WindowsAdjacent ==
    /\ [](\A p \in BackfillProcs : RequestsTile(p))
    /\ [][\A p \in BackfillProcs : RequestsStepBack(p) /\ PersistStepsBack(p)]_vars

C15_Witness ==
    \E p \in EnergyProcs, q \in PowerProcs :
        /\ Cardinality(requests[p]) >= 2
        /\ Cardinality(requests[q]) >= 2
        /\ pc[p] = "insert"

\* the filter of the cursor document of script p
CursorFilter(p) == IF p \in EnergyProcs THEN EnergyCursorFilter ELSE PowerCursorFilter

\* a window requested by p is the 7 days that end at the anchor of p
RequestsWeek(p) ==
    \A w \in requests'[p] \ requests[p] :
        w.end = cursor[p] /\ w.start = w.end - (WEEK - 1)

\* the cursor written for a window of p is the start of that window
WritesWindowStart(p) ==
    \A w \in persisted'[p] \ persisted[p] :
        /\ [start |-> w.start, end |-> w.end] \in requests[p]
        /\ FindOne(meta', CursorFilter(p)) # 0
        /\ meta'[FindOne(meta', CursorFilter(p))].last_date = w.start

\* C16: every window a backfill script requests, for power as for energy, is
\* the 7 calendar days that end at the current anchor (start = anchor - 6
\* days), and the cursor written after persisting it is the window's start.
C16_SevenDayWindows ==
    [][\A p \in BackfillProcs : RequestsWeek(p) /\ WritesWindowStart(p)]_vars

\* C17: a backfill run that finds no cursor of its script starts from
\* yesterday, for power as for energy: its first window ends at today minus
\* one day, and a first run never requests the current day.
C17_InitAnchorYesterday ==
    \A p \in BackfillProcs :
        /\ last[p] = "start" /\ persisted[p] = {} => cursor[p] = Today - 1
        /\ runs[p] = 1 => \A w \in requests[p] : w.end < Today

\* collection coll holds, at the key of document d, the value of d
HoldsValue(coll, d) ==
    \E x \in coll :
        x.plant_id = d.plant_id /\ x.date = d.date /\ x.energy_kwh = d.energy_kwh

\* the insert of an energy backfill window completed without raising
EnergyWindowStored(p) == pc[p] = "insert" /\ pc'[p] = "cursor"

\* the single-day sync stored the day's energy
DayEnergyStored(p) == pc[p] = "energy" /\ last'[p] = "upserted"

\* C18: daily_energy is upserted on every path: when a pull, single-day sync
\* or energy backfill window, has stored a valid value for a date, the
\* document at (plant_id, date) holds that value, whether a document with
\* another value was there before (it is overwritten) or none (it is created).
C18_EnergyUpsertable ==
    [][/\ \A p \in EnergyProcs :
             EnergyWindowStored(p) =>
                 \A k \in 1..Len(docs[p]) :
                     EnergyValidator(docs[p][k]) => HoldsValue(ener', docs[p][k])
       /\ \A p \in DailyProcs :
             DayEnergyStored(p) =>
                 HoldsValue(ener_v2', [plant_id |-> PLANT_ID,
                                       date |-> IstMidnight(cursor[p]),
                                       energy_kwh |-> energy'[p]])]_vars

\* a row of script p whose date or timestamp, and whose value, can be read
Parseable(p, r) ==
    IF p \in EnergyProcs
    THEN r.date.k = "iso" /\ r.energy.k \in {"num", "str", "dec"}
    ELSE r.time.k = "iso" /\ r.power.k \in {"num", "str", "dec", "none"}

\* the answer passed the stop conditions: its rows that can be read, and no
\* others, are prepared for the store, and nothing is raised
DropsCorruptRows(p) ==
    LET rows == Payload(p)'.rows
    IN  /\ pc'[p] = "insert"
        /\ Len(docs'[p]) = Cardinality({i \in 1..Len(rows) : Parseable(p, rows[i])})

\* the insert of a window's documents, the store working, leads to the cursor
\* write, with every document in the store
WindowGoesOn(p) ==
    /\ pc'[p] = "cursor"
    /\ \A k \in 1..Len(docs[p]) :
          IF p \in EnergyProcs THEN EnergyKeyTaken(ener', docs[p][k])
          ELSE BagIn(docs[p][k], pwr')

\* the cursor write of a window leads to the request of the next one
DriverAdvances(p) == pc'[p] = "fetch" /\ cursor'[p] < cursor[p]

\* C19: corrupt rows never abort a backfill window, for power as for energy:
\* of an answer that passes the stop conditions the rows whose date, timestamp
\* or value cannot be read are dropped, every other row is stored, the cursor
\* is written and the script goes on to the next window; a window of corrupt
\* rows only stores nothing and goes on in the same way.
C19_CorruptRowsDropped ==
    [][\A p \in BackfillProcs :
          /\ Answered(p) /\ pc'[p] # "stopped" => DropsCorruptRows(p)
          /\ pc[p] = "insert" /\ pc'[p] # "killed" /\ last'[p] # "BulkWriteError" =>
                WindowGoesOn(p)
          /\ pc[p] = "cursor" /\ pc'[p] # "killed" => DriverAdvances(p)]_vars

\* the energy step of the single-day sync is followed by the pause, the pause
\* by the power step, for the same date
PowerStepFollows(p) ==
    /\ EnergyHandled(p) => pc'[p] = "sleep" /\ cursor'[p] = cursor[p]
    /\ pc[p] = "sleep" /\ pc'[p] # "killed" => pc'[p] = "power" /\ cursor'[p] = cursor[p]

\* C20: in the single-day sync no outcome of the energy step keeps the power
\* step from running: whether the energy was stored or not (fetch failure, no
\* or several records, a date or a number that does not parse, a record
\* without its date or energy field, another date, a negative value, a store
\* error), the sync pauses and goes on to fetch and store the power samples
\* of the same date.
C20_EnergyNeverSkipsPower ==
    [][\A p \in DailyProcs : PowerStepFollows(p)]_vars

\* the step in which the single-day sync handles the power answer
PowerHandled(p) == pc[p] = "power" /\ pc'[p] = "done"

\* the sample a storable record is stored as: its timestamp, read as IST, and
\* its power, null as 0 W
SampleOf(r) ==
    [plant_id |-> PLANT_ID, timestamp |-> r.time.v - IstOffsetMin, power_w |-> CountedPower(r)]

\* the samples of the storable records of rows
SamplesOf(rows) ==
    LET kept == SelectSeq(rows, Storable)
    IN  [k \in 1..Len(kept) |-> SampleOf(kept[k])]

\* null, or the number 0
NullOrZero(t) == t.k = "none" \/ (t.k \in {"num", "str", "dec"} /\ t.v = 0)

\* the answer is one record, of the requested date, that reports 0
ReportsZero(payload, date) ==
    /\ ~payload.none
    /\ Len(payload.rows) = 1
    /\ payload.rows[1].date = Iso(date)
    /\ payload.rows[1].energy.k \in {"num", "str", "dec"}
    /\ payload.rows[1].energy.v = 0

\* a day of null and zero samples stores no sample; any other day stores the
\* sample of every storable record, the store working
ZeroDayStoresNothing(p) ==
    LET rows == power_payload'[p].rows
    IN  IF \A i \in 1..Len(rows) : NullOrZero(rows[i].power)
        THEN pwr_v2' = pwr_v2
        ELSE last'[p] # "insert_error" => pwr_v2' = pwr_v2 (+) SeqToBag(SamplesOf(rows))

\* an energy of 0 reported for the day is stored as 0
ZeroEnergyStored(p) ==
    ReportsZero(energy_payload'[p], cursor[p]) /\ last'[p] # "upsert_error" =>
        /\ energy'[p] = 0
        /\ [plant_id |-> PLANT_ID, date |-> IstMidnight(cursor[p]), energy_kwh |-> 0]
              \in ener_v2'

StoreWriteFailed(p) ==
    \/ pc[p] = "insert" /\ last'[p] = "BulkWriteError"
    \/ pc[p] = "energy" /\ last'[p] = "upsert_error"
    \/ pc[p] = "power" /\ last'[p] = "insert_error"

\* the error leaves the script: it ends with the exception
Propagated(p) == pc'[p] = "crashed"

\* C22: a store write that fails with an error other than a duplicate key is
\* propagated to the caller, not swallowed, on every path: the bulk inserts of
\* both backfill scripts, and the energy upsert and the bulk insert of power
\* samples of the single-day sync.
C22_PersistenceEscalated ==
    [][\A p \in Procs : StoreWriteFailed(p) => Propagated(p)]_vars

\* the calendar date, in the fixed zone, that the instant of a document's
\* date field falls on
CalendarDate(x) == (x.date + IstOffsetMin) \div MinutesPerDay

\* the date field is the UTC instant of a local midnight
KeyedByLocalMidnight(x) == x.date = IstMidnight(CalendarDate(x))

\* C23: both energy paths key a calendar date by the same instant, the UTC
\* instant of its local midnight: every daily energy document, written by the
\* single-day sync or by the energy backfill, carries that instant, documents
\* of the two paths for one (plant, calendar date) have the same key, and no
\* store holds two documents of one (plant, calendar date).
C23_OneKeyPerDate ==
    /\ \A x \in ener \cup ener_v2 : KeyedByLocalMidnight(x)
    /\ \A x \in ener, y \in ener_v2 :
          x.plant_id = y.plant_id /\ CalendarDate(x) = CalendarDate(y) => x.date = y.date
    /\ \A x, y \in ener :
          x.plant_id = y.plant_id /\ CalendarDate(x) = CalendarDate(y) => x = y
    /\ \A x, y \in ener_v2 :
          x.plant_id = y.plant_id /\ CalendarDate(x) = CalendarDate(y) => x = y

\* the processes of the script of p
Script(p) == IF p \in EnergyProcs THEN EnergyProcs ELSE PowerProcs

\* a second run of the script of p was started beside p
TwoRuns(p) == \E q \in Script(p) \ {p} : runs[p] > 0 /\ runs[q] > 0

\* p is the only process that has ever run
SingleWriter(p) == runs[p] > 0 /\ \A q \in Procs \ {p} : runs[q] = 0

\* no two power samples have one (plant_id, timestamp), no two daily energy
\* documents one (plant_id, date)
NoTwoOfOneKey ==
    /\ \A x \in DOMAIN pwr :
          /\ pwr[x] <= 1
          /\ \A y \in DOMAIN pwr :
                pwr[x] > 0 /\ pwr[y] > 0 /\ x.plant_id = y.plant_id
                    /\ x.timestamp = y.timestamp => x = y
    /\ \A x, y \in ener : x.plant_id = y.plant_id /\ x.date = y.date => x = y

\* the cursor document of the script of p, 0 when there is none
CursorOf(coll, p) == FindOne(coll, CursorFilter(p))

\* p writes its cursor
WritesCursor(p) == pc[p] = "cursor" /\ pc'[p] = "fetch"

\* the cursor p writes names the start of the window p has just stored
WritesStoredWindow(p) ==
    /\ CursorOf(meta', p) # 0
    /\ \E w \in persisted'[p] :
          /\ w.start = meta'[CursorOf(meta', p)].last_date
          /\ w.docs = docs[p]
          /\ Stored(p, w.docs)

\* p has written its cursor before in this run, and now writes an earlier date
WritesEarlier(p) ==
    Cardinality(requests[p]) >= 2 =>
        /\ CursorOf(meta, p) # 0
        /\ meta'[CursorOf(meta', p)].last_date < meta[CursorOf(meta, p)].last_date

\* C24: with two runs of one backfill script interleaved at will, the store
\* never holds two records of one natural key, and every cursor value written
\* names the start of a window whose rows are stored; in a run that is the
\* only writer each cursor write carries a strictly earlier date than the one
\* before. (That two interleaved runs may write a later date after an earlier
\* one is what the claim gives up.)
C24_Interleaved ==
    /\ [](\A p \in BackfillProcs : TwoRuns(p) => NoTwoOfOneKey)
    /\ [][\A p \in BackfillProcs :
             WritesCursor(p) =>
                 /\ WritesStoredWindow(p)
                 /\ SingleWriter(p) => WritesEarlier(p)]_vars

====
